---- MODULE Spec2Model ----
(***************************************************************************)
(* Model of the three data-import scripts of quran_android:                *)
(*   scripts/import_roots_from_morphology.py  (Morphology Importer)        *)
(*   scripts/populate_etymology.py            (Etymology Populator)        *)
(*   scripts/populate_root_meanings.py        (Root Meanings Seeder)       *)
(*                                                                         *)
(* A Python str is a sequence of one-character strings; None / SQL NULL is *)
(* the value NULL, which is no such sequence.                              *)
(***************************************************************************)
EXTENDS Integers, Sequences, FiniteSets, TLC

VARIABLES
    pc,         \* position of the running script
    data,       \* parse_morphology: the downloaded text
    result,     \* parse_morphology: [exc, word_roots]
    root,       \* format_root: argument
    formatted,  \* format_root: return value
    word_translations,  \* the table as committed in the database file
    pending,    \* the table as the open connection sees it
    conn,       \* "none", "open" or "closed"
    commits,    \* conn.commit() calls of the running script
    op,         \* the function the running script executes
    runs,       \* scripts run so far
    word_roots, \* update_database: its argument
    idx,        \* position of the running for loop
    updated,    \* update_database / bulk modes: counter
    not_found,  \* update_database: counter
    csv_file,   \* the file written by export_words
    words,      \* interactive_mode: the rows fetched for prompting
    response,   \* interactive_mode: what input() returned
    etymology,  \* interactive_mode: the stripped response
    stats,      \* show_stats: what was printed
    exported,   \* the table at the time csv_file was written
    csv_read,   \* update_from_csv: the content of the file it read
    root_meanings,  \* the root_meanings table, or NoTable
    sqlite_sequence,    \* largest id root_meanings has ever used
    inserted,   \* populate_root_meanings: counter
    seed_runs   \* runs of populate_root_meanings so far

vars ==
    <<pc, data, result, root, formatted, word_translations, pending, conn,
      commits, op, runs, word_roots, idx, updated, not_found, csv_file,
      words, response, etymology, stats, exported, csv_read, root_meanings,
      sqlite_sequence, inserted, seed_runs>>

parseVars == <<data, result>>
formatVars == <<root, formatted>>
seedVars == <<root_meanings, sqlite_sequence, inserted, seed_runs>>
dbVars ==
    <<word_translations, pending, conn, commits, op, runs, word_roots, idx,
      updated, not_found, csv_file, words, response, etymology, stats,
      exported, csv_read>>

\* ---------------------------------------------------------------- bounds
MaxLines == 3
MaxRootLen == 4
MaxRows == 2
MaxRuns == 2
MaxEntries == 2
MaxSeedRuns == 3
StaleRoots == 4

\* ------------------------------------------------------ Python str model
NULL == <<"NULL">>
None == NULL

Whitespace == {" ", "\t", "\n", "\r"}
Digits == {"0", "1", "2"}

RECURSIVE lstrip(_)
lstrip(s) == IF s # <<>> /\ Head(s) \in Whitespace THEN lstrip(Tail(s)) ELSE s

RECURSIVE rstrip(_)
rstrip(s) ==
    IF s # <<>> /\ s[Len(s)] \in Whitespace
    THEN rstrip(SubSeq(s, 1, Len(s) - 1))
    ELSE s

\* str.strip()
strip(s) == rstrip(lstrip(s))

\* str.split(sep) for a one-character separator
RECURSIVE split(_, _)
split(s, sep) ==
    IF \A i \in 1..Len(s) : s[i] # sep
    THEN <<s>>
    ELSE LET i == CHOOSE k \in 1..Len(s) :
                      s[k] = sep /\ \A j \in 1..(k - 1) : s[j] # sep
         IN  <<SubSeq(s, 1, i - 1)>> \o split(SubSeq(s, i + 1, Len(s)), sep)

\* sep.join(parts), for a sequence of strings
RECURSIVE join(_, _)
join(sep, parts) ==
    IF parts = <<>> THEN <<>>
    ELSE IF Len(parts) = 1 THEN parts[1]
    ELSE parts[1] \o <<sep>> \o join(sep, Tail(parts))

\* sep.join(s), for a string s iterated character by character
RECURSIVE joinChars(_, _)
joinChars(sep, s) ==
    IF s = <<>> THEN <<>>
    ELSE IF Len(s) = 1 THEN <<s[1]>>
    ELSE <<s[1], sep>> \o joinChars(sep, Tail(s))

startswith(s, c) == s # <<>> /\ s[1] = c

\* int(s): surrounding whitespace and one sign are accepted, then one or
\* more decimal digits; anything else raises ValueError.
intBody(s) ==
    LET t == strip(s)
    IN  IF t # <<>> /\ t[1] \in {"+", "-"} THEN Tail(t) ELSE t

intRaises(s) ==
    LET b == intBody(s)
    IN  b = <<>> \/ \E i \in 1..Len(b) : b[i] \notin Digits

DigitVal(c) == CASE c = "0" -> 0 [] c = "1" -> 1 [] c = "2" -> 2 [] OTHER -> 0

RECURSIVE digitsVal(_)
digitsVal(b) ==
    IF b = <<>> THEN 0
    ELSE 10 * digitsVal(SubSeq(b, 1, Len(b) - 1)) + DigitVal(b[Len(b)])

int(s) ==
    LET t == strip(s)
    IN  IF t # <<>> /\ t[1] = "-" THEN 0 - digitsVal(intBody(s))
        ELSE digitsVal(intBody(s))

\* ------------------------------------------------------------ format_root
format_rootNoGuard(r) == IF r = None THEN None ELSE joinChars("-", r)

format_root(r) ==
    IF r = None \/ r = <<>> THEN None ELSE joinChars("-", r)

\* -------------------------------------------------------- parse_morphology
ROOT_TAG == <<"R", "O", "O", "T", ":">>

\* The run of characters other than '|' that starts at position i.
RECURSIVE runNoPipe(_, _)
runNoPipe(s, i) ==
    IF i > Len(s) \/ s[i] = "|" THEN <<>>
    ELSE <<s[i]>> \o runNoPipe(s, i + 1)

matchesAt(s, i) ==
    /\ i + 5 <= Len(s)
    /\ SubSeq(s, i, i + 4) = ROOT_TAG
    /\ s[i + 5] # "|"

\* re.search(r'ROOT:([^\|]+)', morphology): group 1 of the leftmost match,
\* None when there is no match.
re_search_ROOT(morphology) ==
    IF \E i \in 1..Len(morphology) : matchesAt(morphology, i)
    THEN LET i == CHOOSE k \in 1..Len(morphology) :
                      /\ matchesAt(morphology, k)
                      /\ \A j \in 1..(k - 1) : ~matchesAt(morphology, j)
         IN  runNoPipe(morphology, i + 5)
    ELSE None

\* word_roots (wr) is an insertion-ordered dict: a sequence of [key, root].
hasKey(wr, key) == \E i \in 1..Len(wr) : wr[i].key = key

storeLastWins(wr, key, r) ==
    IF hasKey(wr, key)
    THEN [i \in 1..Len(wr) |->
             IF wr[i].key = key
             THEN [key |-> key, root |-> format_root(r)]
             ELSE wr[i]]
    ELSE Append(wr, [key |-> key, root |-> format_root(r)])

\* if key not in word_roots: word_roots[key] = format_root(root)
storeRoot(wr, key, r) ==
    IF hasKey(wr, key)
    THEN wr
    ELSE Append(wr, [key |-> key, root |-> format_root(r)])

\* One iteration of the for loop; acc = [exc, word_roots].
parseLine(acc, line) ==
    IF acc.exc # "none" THEN acc
    ELSE IF line = <<>> \/ startswith(line, "#") THEN acc
    ELSE LET parts == split(line, "\t") IN
    IF Len(parts) < 4 THEN acc
    ELSE LET location == parts[1]
             morphology == parts[4]
             loc_parts == split(location, ":")
         IN
    IF Len(loc_parts) < 3 THEN acc
    ELSE IF \E i \in 1..3 : intRaises(loc_parts[i])
    THEN [exc |-> "ValueError", word_roots |-> <<>>]
    ELSE LET key == <<int(loc_parts[1]), int(loc_parts[2]), int(loc_parts[3])>>
             root_match == re_search_ROOT(morphology)
         IN  IF root_match # None
             THEN [acc EXCEPT !.word_roots = storeRoot(@, key, root_match)]
             ELSE acc

RECURSIVE parseLines(_, _)
parseLines(acc, lines) ==
    IF lines = <<>> THEN acc
    ELSE parseLines(parseLine(acc, Head(lines)), Tail(lines))

\* data.strip().split('\n')
dataLines(d) == split(strip(d), "\n")

parse_morphology(d) ==
    parseLines([exc |-> "none", word_roots |-> <<>>], dataLines(d))

\* ------------------------------------------------- inputs of the parser
TAB == <<"\t">>
Loc111 == <<"1", ":", "1", ":", "1">>
MidFields == TAB \o <<"x">> \o TAB \o <<"y">> \o TAB

LineTemplates ==
    { Loc111 \o <<":", "1">> \o MidFields \o ROOT_TAG \o <<"a", "b">>,
      Loc111 \o <<":", "2">> \o MidFields \o <<"P", "|">> \o ROOT_TAG
             \o <<"c", "|", "L">>,
      Loc111 \o MidFields \o <<"P">>,
      <<"0", "1", ":", "1", ":", "2">> \o MidFields \o ROOT_TAG \o <<"b">>,
      <<>>,
      <<"#">> \o Loc111 \o MidFields \o ROOT_TAG \o <<"a">>,
      Loc111 \o TAB \o <<"x">> \o TAB \o ROOT_TAG \o <<"a">>,
      <<"1", ":", "1">> \o MidFields \o ROOT_TAG \o <<"a">>,
      <<"a", ":", "1", ":", "1">> \o MidFields \o ROOT_TAG \o <<"a">>,
      <<"1", ":", ":", "1">> \o MidFields \o <<"P">>,
      TAB \o Loc111 \o MidFields \o ROOT_TAG \o <<"c">> }

DataInputs ==
    { join("\n", ls) :
        ls \in UNION { [1..n -> LineTemplates] : n \in 0..MaxLines } }

RootChars == {"a", "b", "-"}

RootInputs ==
    {None} \cup UNION { [1..n -> RootChars] : n \in 0..MaxRootLen }

Pending == [exc |-> "pending", word_roots |-> <<>>]

\* The database file has no word_translations table: every statement on it
\* fails with sqlite3.OperationalError.
NoTable == <<[no_such_table |-> TRUE]>>

\* No script has touched the database.
DbIdle ==
    /\ pending = word_translations
    /\ conn = "none"
    /\ commits = 0
    /\ op = "none"
    /\ runs = 0
    /\ word_roots = <<>>
    /\ idx = 0
    /\ updated = 0
    /\ not_found = 0
    /\ csv_file = NULL
    /\ csv_read = NULL
    /\ words = <<>>
    /\ response = <<>>
    /\ etymology = <<>>
    /\ stats = [exc |-> "pending"]
    /\ exported = NoTable

SeedIdle ==
    /\ root_meanings = NoTable
    /\ sqlite_sequence = 0
    /\ inserted = 0
    /\ seed_runs = 0

ParseIdle ==
    /\ data = <<>>
    /\ result = Pending
    /\ root = None
    /\ formatted = None

\* ------------------------------------------------ specification: parser
InitParse ==
    /\ pc = "start"
    /\ data \in DataInputs
    /\ result = Pending
    /\ root = None
    /\ formatted = None
    /\ word_translations = <<>>
    /\ DbIdle
    /\ SeedIdle

Parse ==
    /\ pc = "start"
    /\ pc' = "done"
    /\ result' = parse_morphology(data)
    /\ UNCHANGED <<data, formatVars, dbVars, seedVars>>

NextParse == Parse

SpecParse == InitParse /\ [][NextParse]_vars

\* ------------------------------------------- specification: format_root
InitFormat ==
    /\ pc = "start"
    /\ root \in RootInputs
    /\ formatted = None
    /\ data = <<>>
    /\ result = Pending
    /\ word_translations = <<>>
    /\ DbIdle
    /\ SeedIdle

FormatRoot ==
    /\ pc = "start"
    /\ pc' = "done"
    /\ formatted' = format_root(root)
    /\ UNCHANGED <<root, parseVars, dbVars, seedVars>>

NextFormat == FormatRoot

SpecFormat == InitFormat /\ [][NextFormat]_vars

\* ------------------------------------------------------ claims: parser
\* What one line of the text says, read off the line itself.
lineFields(line) == split(line, "\t")
lineLoc(line) == split(lineFields(line)[1], ":")

lineRetained(line) ==
    /\ line # <<>>
    /\ ~startswith(line, "#")
    /\ Len(lineFields(line)) >= 4

lineLocMalformed(line) ==
    /\ lineRetained(line)
    /\ \/ Len(lineLoc(line)) < 3
       \/ \E i \in 1..3 : intRaises(lineLoc(line)[i])

lineHasRootTag(line) ==
    /\ lineRetained(line)
    /\ re_search_ROOT(lineFields(line)[4]) # None

lineCarries(line) ==
    /\ lineHasRootTag(line)
    /\ ~lineLocMalformed(line)

lineKey(line) ==
    <<int(lineLoc(line)[1]), int(lineLoc(line)[2]), int(lineLoc(line)[3])>>

lineRoot(line) == re_search_ROOT(lineFields(line)[4])

\* C1: when parse_morphology returns a mapping, each key of the mapping
\* holds the formatted root of the first line, in file order, that has the
\* key and carries a ROOT tag; every such key is present, once; later ROOT
\* lines do not change it and earlier lines without ROOT do not block it.
C1_FirstWriteWins ==
    (pc = "done" /\ result.exc = "none") =>
        LET lines == dataLines(data)
            wr == result.word_roots
            first(i) ==
                /\ lineCarries(lines[i])
                /\ \A j \in 1..(i - 1) :
                       ~(lineCarries(lines[j])
                         /\ lineKey(lines[j]) = lineKey(lines[i]))
        IN  /\ \A e \in 1..Len(wr) :
                  \E i \in 1..Len(lines) :
                      /\ first(i)
                      /\ lineKey(lines[i]) = wr[e].key
                      /\ wr[e].root = joinChars("-", lineRoot(lines[i]))
            /\ \A i \in 1..Len(lines) :
                  lineCarries(lines[i]) => hasKey(wr, lineKey(lines[i]))
            /\ \A e, f \in 1..Len(wr) : wr[e].key = wr[f].key => e = f

\* A key first met on a line without ROOT, then on two lines whose ROOT
\* tags differ.
C1_Witness ==
    /\ pc = "done"
    /\ result.exc = "none"
    /\ LET lines == dataLines(data)
       IN  /\ Len(lines) = 3
           /\ lineRetained(lines[1]) /\ ~lineLocMalformed(lines[1])
           /\ ~lineHasRootTag(lines[1])
           /\ lineCarries(lines[2]) /\ lineCarries(lines[3])
           /\ lineKey(lines[1]) = lineKey(lines[2])
           /\ lineKey(lines[2]) = lineKey(lines[3])
           /\ lineRoot(lines[2]) # lineRoot(lines[3])
           /\ result.word_roots =
                  <<[key |-> lineKey(lines[2]),
                     root |-> joinChars("-", lineRoot(lines[2]))]>>

\* C8: a line whose location is malformed (fewer than three components, or
\* components that are not numbers) is skipped: parsing does not fail and
\* returns what the other lines alone give.
C8_MalformedLocationSkipped ==
    pc = "done" =>
        /\ result.exc = "none"
        /\ result =
               parseLines([exc |-> "none", word_roots |-> <<>>],
                          SelectSeq(dataLines(data),
                                    LAMBDA l : ~lineLocMalformed(l)))

\* C9: blank lines, '#' lines, lines with fewer than 4 fields and lines
\* without a ROOT tag contribute nothing: the result equals the result for
\* the same text with those lines removed.
lineInert(line) == ~lineHasRootTag(line)

C9_InertLinesRemovable ==
    pc = "done" =>
        result =
            parse_morphology(
                join("\n", SelectSeq(split(data, "\n"),
                                     LAMBDA l : ~lineInert(l))))

\* -------------------------------------------------- claims: format_root
\* C10: for a root of n >= 1 characters format_root returns 2n-1
\* characters, the input characters at the odd positions and dashes at the
\* even ones; for an empty or absent root it returns None.
C10_FormatRoot ==
    pc = "done" =>
        IF root = None \/ root = <<>>
        THEN formatted = None
        ELSE /\ formatted # None
             /\ Len(formatted) = 2 * Len(root) - 1
             /\ \A i \in 1..Len(root) : formatted[2 * i - 1] = root[i]
             /\ \A i \in 1..(Len(root) - 1) : formatted[2 * i] = "-"

C10_Witness ==
    /\ pc = "done"
    /\ root = <<"a", "b", "a">>
    /\ formatted = <<"a", "-", "b", "-", "a">>

\* ============================================================ database
\* word_translations is a sequence of rows in id order, or NoTable.
Missing == NULL

CharOrder == <<"\t", "\n", "\r", " ", "\"", ",", "-", "a", "b", "x", "y">>
charRank(c) == CHOOSE i \in 1..Len(CharOrder) : CharOrder[i] = c

\* a < b in SQLite's BINARY collation
RECURSIVE textLess(_, _)
textLess(a, b) ==
    IF b = <<>> THEN FALSE
    ELSE IF a = <<>> THEN TRUE
    ELSE IF Head(a) = Head(b) THEN textLess(Tail(a), Tail(b))
    ELSE charRank(Head(a)) < charRank(Head(b))

\* etymology IS NULL OR etymology = ''
etymologyMissing(r) == r.etymology = NULL \/ r.etymology = <<>>

\* UPDATE word_translations SET etymology = ? WHERE arabic_text = ?
matchText(t, text) == { i \in DOMAIN t : text # NULL /\ t[i].arabic_text = text }

updateByTextClobber(t, text, e) ==
    [i \in DOMAIN t |->
        IF i \in matchText(t, text)
        THEN [t[i] EXCEPT !.etymology = e, !.translation = e]
        ELSE t[i]]

updateByText(t, text, e) ==
    [i \in DOMAIN t |->
        IF i \in matchText(t, text) THEN [t[i] EXCEPT !.etymology = e] ELSE t[i]]

\* UPDATE ... WHERE sura = ? AND ayah = ? AND word_position = ?
matchKey(t, key) ==
    { i \in DOMAIN t : <<t[i].sura, t[i].ayah, t[i].word_position>> = key }

updateByKey(t, key, e) ==
    [i \in DOMAIN t |->
        IF i \in matchKey(t, key) THEN [t[i] EXCEPT !.etymology = e] ELSE t[i]]

\* sqlite3.connect(DB_PATH): a fresh connection sees the committed table
connect ==
    /\ conn' = "open"
    /\ pending' = word_translations
    /\ commits' = 0

\* conn.commit(); conn.close()
commitAndClose(t) ==
    /\ word_translations' = t
    /\ pending' = t
    /\ commits' = commits + 1
    /\ conn' = "closed"

canStart == pc = "idle" /\ runs < MaxRuns

\* ------------------------------------------------------ update_database
\* if cursor.rowcount > 0
countedUpdatedAlways(rowcount) == rowcount >= 0

countedUpdated(rowcount) == rowcount > 0

UD_Start(wr) ==
    /\ canStart
    /\ runs' = runs + 1
    /\ op' = "update_database"
    /\ pc' = "ud_loop"
    /\ connect
    /\ word_roots' = wr
    /\ idx' = 1
    /\ updated' = 0
    /\ not_found' = 0
    /\ UNCHANGED <<word_translations, csv_file, csv_read, words, response,
                   etymology, stats, exported, parseVars, formatVars, seedVars>>

UD_Step ==
    /\ pc = "ud_loop"
    /\ idx <= Len(word_roots)
    /\ IF pending = NoTable
       THEN /\ pc' = "raised"
            /\ UNCHANGED <<pending, idx, updated, not_found>>
       ELSE LET e == word_roots[idx]
                rowcount == Cardinality(matchKey(pending, e.key))
            IN  /\ pending' = updateByKey(pending, e.key, e.root)
                /\ IF countedUpdated(rowcount)
                   THEN updated' = updated + 1 /\ not_found' = not_found
                   ELSE not_found' = not_found + 1 /\ updated' = updated
                /\ idx' = idx + 1
                /\ pc' = pc
    /\ UNCHANGED <<word_translations, conn, commits, op, runs, word_roots,
                   csv_file, csv_read, words, response, etymology, stats,
                   exported, parseVars, formatVars, seedVars>>

UD_Finish ==
    /\ pc = "ud_loop"
    /\ idx > Len(word_roots)
    /\ commitAndClose(pending)
    /\ pc' = "done"
    /\ UNCHANGED <<op, runs, word_roots, idx, updated, not_found, csv_file,
                   csv_read, words, response, etymology, stats, exported,
                   parseVars, formatVars, seedVars>>

\* The script's process ends: what was not committed is rolled back.
Exit ==
    /\ pc \in {"done", "raised"}
    /\ pc' = "idle"
    /\ op' = "none"
    /\ conn' = "none"
    /\ pending' = word_translations
    /\ commits' = 0
    /\ word_roots' = <<>>
    /\ idx' = 0
    /\ updated' = 0
    /\ not_found' = 0
    /\ csv_read' = Missing
    /\ words' = <<>>
    /\ response' = <<>>
    /\ etymology' = <<>>
    /\ stats' = [exc |-> "pending"]
    /\ UNCHANGED <<word_translations, runs, csv_file, exported, parseVars,
                   formatVars, seedVars>>

\* ------------------------------------------------------------- csv files
S_arabic_text == <<"a", "r", "a", "b", "i", "c", "_", "t", "e", "x", "t">>
S_translation == <<"t", "r", "a", "n", "s", "l", "a", "t", "i", "o", "n">>
S_transliteration ==
    <<"t", "r", "a", "n", "s", "l", "i", "t", "e", "r", "a", "t", "i", "o", "n">>
S_etymology == <<"e", "t", "y", "m", "o", "l", "o", "g", "y">>

RECURSIVE doubleQuotes(_)
doubleQuotes(v) ==
    IF v = <<>> THEN <<>>
    ELSE IF Head(v) = "\"" THEN <<"\"", "\"">> \o doubleQuotes(Tail(v))
    ELSE <<Head(v)>> \o doubleQuotes(Tail(v))

\* csv.writer, default dialect: None is written as '', a field holding the
\* delimiter, the quote character or a line break is quoted.
csvFieldUnquoted(v) == IF v = NULL THEN <<>> ELSE v

csvField(v) ==
    IF v = NULL THEN <<>>
    ELSE IF \E i \in 1..Len(v) : v[i] \in {",", "\"", "\r", "\n"}
    THEN <<"\"">> \o doubleQuotes(v) \o <<"\"">>
    ELSE v

csvRow(fields) ==
    join(",", [i \in 1..Len(fields) |-> csvField(fields[i])]) \o <<"\r", "\n">>

RECURSIVE csvWriteRows(_)
csvWriteRows(rows) ==
    IF rows = <<>> THEN <<>>
    ELSE csvRow(Head(rows)) \o csvWriteRows(Tail(rows))

\* open(csv_file, 'r'): universal newlines turn \r\n and \r into \n
universalNewlines(t) ==
    LET marked == [i \in 1..Len(t) |->
                      IF t[i] = "\r" THEN "\n"
                      ELSE IF t[i] = "\n" /\ i > 1 /\ t[i - 1] = "\r"
                      THEN "DROP"
                      ELSE t[i]]
    IN  SelectSeq(marked, LAMBDA c : c # "DROP")

\* csv.reader, default dialect.  Inside a quoted field, from position i:
\* "" is one quote, a single " closes the quoted part.
RECURSIVE csvQuoted(_, _, _)
csvQuoted(t, i, field) ==
    IF i > Len(t) THEN [field |-> field, i |-> i]
    ELSE IF t[i] = "\""
    THEN IF i + 1 <= Len(t) /\ t[i + 1] = "\""
         THEN csvQuoted(t, i + 2, Append(field, "\""))
         ELSE [field |-> field, i |-> i + 1]
    ELSE csvQuoted(t, i + 1, Append(field, t[i]))

\* Outside quotes a field runs up to the next ',' or line break.
unquotedEnd(t, i) ==
    IF \E k \in i..Len(t) : t[k] \in {",", "\n"}
    THEN CHOOSE k \in i..Len(t) :
             /\ t[k] \in {",", "\n"}
             /\ \A j \in i..(k - 1) : t[j] \notin {",", "\n"}
    ELSE Len(t) + 1

\* The field that starts at i, and the position of what ends it.
csvFieldAt(t, i) ==
    LET q == IF i <= Len(t) /\ t[i] = "\""
             THEN csvQuoted(t, i + 1, <<>>)
             ELSE [field |-> <<>>, i |-> i]
        e == unquotedEnd(t, q.i)
    IN  [field |-> q.field \o SubSeq(t, q.i, e - 1), i |-> e]

\* row: the fields of the record being read; an empty line gives [].
RECURSIVE csvRecords(_, _, _, _)
csvRecords(t, i, row, rows) ==
    IF i > Len(t)
    THEN IF row = <<>> THEN rows ELSE Append(rows, Append(row, <<>>))
    ELSE IF row = <<>> /\ t[i] = "\n"
    THEN csvRecords(t, i + 1, <<>>, Append(rows, <<>>))
    ELSE LET f == csvFieldAt(t, i)
         IN  IF f.i > Len(t) THEN Append(rows, Append(row, f.field))
             ELSE IF t[f.i] = ","
             THEN csvRecords(t, f.i + 1, Append(row, f.field), rows)
             ELSE csvRecords(t, f.i + 1, <<>>,
                             Append(rows, Append(row, f.field)))

csvReader(text) ==
    csvRecords(universalNewlines(text), 1, <<>>, <<>>)

\* csv.DictReader: the first row gives the field names, empty rows are
\* skipped, a short row has None for the fields it lacks.
dictRows(text) ==
    LET all == csvReader(text)
    IN  IF all = <<>> THEN <<>>
        ELSE SelectSeq(Tail(all), LAMBDA r : r # <<>>)

fieldnames(text) ==
    LET all == csvReader(text) IN IF all = <<>> THEN <<>> ELSE Head(all)

hasField(names, name) == \E i \in 1..Len(names) : names[i] = name

\* row.get(name)
dictGet(names, row, name) ==
    IF ~hasField(names, name) THEN None
    ELSE LET i == CHOOSE k \in 1..Len(names) :
                      /\ names[k] = name
                      /\ \A j \in (k + 1)..Len(names) : names[j] # name
         IN  IF i <= Len(row) THEN row[i] ELSE None

\* ----------------------------------------------------------- export_words
\* SELECT DISTINCT arabic_text, translation, transliteration, etymology
distinctTuples(t) ==
    { <<t[i].arabic_text, t[i].translation, t[i].transliteration,
        t[i].etymology>> : i \in DOMAIN t }

\* ... ORDER BY arabic_text: any order of the distinct tuples that is
\* ascending in arabic_text; the order among equal texts is not specified.
exportOrders(t) ==
    LET d == distinctTuples(t)
        n == Cardinality(d)
    IN  { q \in [1..n -> d] :
            /\ \A i, j \in 1..n : q[i] = q[j] => i = j
            /\ \A i, j \in 1..n : i < j => ~textLess(q[j][1], q[i][1]) }

exportHeader ==
    <<S_arabic_text, S_translation, S_transliteration, S_etymology>>

export_words ==
    /\ canStart
    /\ runs' = runs + 1
    /\ op' = "export_words"
    /\ pending' = word_translations
    /\ commits' = 0
    /\ IF word_translations = NoTable
       THEN /\ pc' = "raised"
            /\ conn' = "open"
            /\ UNCHANGED <<csv_file, exported>>
       ELSE \E rows \in exportOrders(word_translations) :
            /\ pc' = "done"
            /\ conn' = "closed"
            /\ csv_file' = csvWriteRows(<<exportHeader>> \o rows)
            /\ exported' = word_translations
    /\ UNCHANGED <<word_translations, word_roots, idx, updated, not_found,
                   csv_read, words, response, etymology, stats, parseVars,
                   formatVars, seedVars>>

\* -------------------------------------------------------- update_from_csv
\* One iteration of "for row in reader"; acc = [t, updated, exc].
csvApplyRow(acc, names, row) ==
    IF acc.exc # "none" THEN acc
    ELSE LET e == dictGet(names, row, S_etymology)
         IN
    IF e = None \/ e = <<>> THEN acc
    ELSE IF ~hasField(names, S_arabic_text)
    THEN [acc EXCEPT !.exc = "KeyError"]
    ELSE IF acc.t = NoTable
    THEN [acc EXCEPT !.exc = "OperationalError"]
    ELSE LET a == dictGet(names, row, S_arabic_text)
         IN  [acc EXCEPT !.t = updateByText(@, a, e),
                         !.updated = @ + Cardinality(matchText(acc.t, a))]

RECURSIVE csvApplyRows(_, _, _)
csvApplyRows(acc, names, rows) ==
    IF rows = <<>> THEN acc
    ELSE csvApplyRows(csvApplyRow(acc, names, Head(rows)), names, Tail(rows))

update_from_csv(file) ==
    /\ canStart
    /\ runs' = runs + 1
    /\ op' = "update_from_csv"
    /\ csv_read' = file
    /\ IF file = Missing
       THEN \* open() raises FileNotFoundError, or the read UnicodeDecodeError
            /\ pc' = "raised"
            /\ connect
            /\ UNCHANGED <<word_translations, updated>>
       ELSE LET r == csvApplyRows(
                         [t |-> word_translations, updated |-> 0,
                          exc |-> "none"],
                         fieldnames(file), dictRows(file))
            IN  IF r.exc # "none"
                THEN /\ pc' = "raised"
                     /\ conn' = "open"
                     /\ pending' = r.t
                     /\ commits' = 0
                     /\ UNCHANGED <<word_translations, updated>>
                ELSE /\ pc' = "done"
                     /\ commitAndClose(r.t)
                     /\ updated' = r.updated
    /\ UNCHANGED <<word_roots, idx, not_found, csv_file, words, response,
                   etymology, stats, exported, parseVars, formatVars, seedVars>>

\* ------------------------------------------------------- update_from_json
\* mappings is the dict json.load returns, as a sequence of
\* [arabic_text, etymology] in insertion order; acc = [t, updated].
\* The JSON file is missing or is not valid JSON.
NoMappings == <<[no_such_file |-> TRUE]>>

RECURSIVE jsonApply(_, _)
jsonApply(acc, mappings) ==
    IF mappings = <<>> THEN acc
    ELSE LET m == Head(mappings)
         IN  jsonApply(
                 [t |-> updateByText(acc.t, m.arabic_text, m.etymology),
                  updated |->
                      acc.updated + Cardinality(matchText(acc.t, m.arabic_text))],
                 Tail(mappings))

update_from_json(mappings) ==
    /\ canStart
    /\ runs' = runs + 1
    /\ op' = "update_from_json"
    /\ IF mappings = NoMappings
       THEN \* open() or json.load raises before the connection is made
            /\ pc' = "raised"
            /\ UNCHANGED <<word_translations, pending, conn, commits, updated>>
       ELSE IF word_translations = NoTable /\ mappings # <<>>
       THEN /\ pc' = "raised"
            /\ connect
            /\ UNCHANGED <<word_translations, updated>>
       ELSE LET r == jsonApply([t |-> word_translations, updated |-> 0],
                               mappings)
            IN  /\ pc' = "done"
                /\ commitAndClose(r.t)
                /\ updated' = r.updated
    /\ UNCHANGED <<word_roots, idx, not_found, csv_file, csv_read, words,
                   response, etymology, stats, exported, parseVars,
                   formatVars, seedVars>>

\* ------------------------------------------------------- interactive_mode
Limit == 100

\* SELECT DISTINCT arabic_text, translation, transliteration ... WHERE
\* etymology IS NULL OR etymology = '' ORDER BY id LIMIT 100
RECURSIVE selectWords(_, _)
selectWords(t, acc) ==
    IF t = <<>> THEN acc
    ELSE LET r == Head(t)
             w == <<r.arabic_text, r.translation, r.transliteration>>
         IN  IF etymologyMissing(r) /\ \A i \in 1..Len(acc) : acc[i] # w
             THEN selectWords(Tail(t), Append(acc, w))
             ELSE selectWords(Tail(t), acc)

fetchWords(t) ==
    LET all == selectWords(t, <<>>)
    IN  IF Len(all) > Limit THEN SubSeq(all, 1, Limit) ELSE all

lowerChar(c) ==
    CASE c = "Q" -> "q" [] c = "U" -> "u" [] c = "I" -> "i" [] c = "T" -> "t"
      [] c = "S" -> "s" [] c = "K" -> "k" [] c = "P" -> "p" [] OTHER -> c

\* str.lower()
lower(v) == [i \in 1..Len(v) |-> lowerChar(v[i])]

S_quit == <<"q", "u", "i", "t">>
S_skip == <<"s", "k", "i", "p">>

isQuitExact(e) == e = S_quit

\* etymology.lower() == 'quit'
isQuit(e) == lower(e) = S_quit

\* etymology.lower() == 'skip' or not etymology
isSkip(e) == lower(e) = S_skip \/ e = <<>>

EOF == <<"EOF">>

IM_Start ==
    /\ canStart
    /\ runs' = runs + 1
    /\ op' = "interactive_mode"
    /\ connect
    /\ IF word_translations = NoTable
       THEN pc' = "raised" /\ UNCHANGED <<words, idx>>
       ELSE /\ pc' = "im_loop"
            /\ words' = fetchWords(word_translations)
            /\ idx' = 1
    /\ UNCHANGED <<word_translations, word_roots, updated, not_found,
                   csv_file, csv_read, response, etymology, stats, exported,
                   parseVars, formatVars, seedVars>>

\* One iteration of "for arabic, translation, translit in words".
IM_Prompt(line) ==
    /\ pc = "im_loop"
    /\ idx <= Len(words)
    /\ response' = line
    /\ IF line = EOF
       THEN \* input() raises EOFError
            /\ pc' = "raised"
            /\ UNCHANGED <<etymology, pending, idx>>
       ELSE /\ etymology' = strip(line)
            /\ IF isQuit(etymology')
               THEN pc' = "im_end" /\ UNCHANGED <<pending, idx>>
               ELSE IF isSkip(etymology')
               THEN pc' = pc /\ idx' = idx + 1 /\ UNCHANGED pending
               ELSE /\ pc' = pc
                    /\ idx' = idx + 1
                    /\ pending' = updateByText(pending, words[idx][1],
                                               etymology')
    /\ UNCHANGED <<word_translations, conn, commits, op, runs, word_roots,
                   updated, not_found, csv_file, csv_read, words, stats,
                   exported, parseVars, formatVars, seedVars>>

IM_Finish ==
    /\ \/ pc = "im_end"
       \/ pc = "im_loop" /\ idx > Len(words)
    /\ commitAndClose(pending)
    /\ pc' = "done"
    /\ UNCHANGED <<op, runs, word_roots, idx, updated, not_found, csv_file,
                   csv_read, words, response, etymology, stats, exported,
                   parseVars, formatVars, seedVars>>

\* ------------------------------------------------------------- show_stats
\* f"{100*n/d:.1f}", in tenths of a percent
pctTenths(n, d) == (2000 * n + d) \div (2 * d)

uniqueTexts(t) == { t[i].arabic_text : i \in DOMAIN t } \ {NULL}

textsWithEtymology(t) ==
    { t[i].arabic_text : i \in { k \in DOMAIN t : ~etymologyMissing(t[k]) } }
        \ {NULL}

show_stats ==
    /\ canStart
    /\ runs' = runs + 1
    /\ op' = "show_stats"
    /\ pending' = word_translations
    /\ commits' = 0
    /\ IF word_translations = NoTable
       THEN /\ pc' = "raised"
            /\ conn' = "open"
            /\ stats' = [exc |-> "OperationalError"]
       ELSE LET t == word_translations
                total == Len(t)
                with_etymology ==
                    Cardinality({ i \in DOMAIN t : ~etymologyMissing(t[i]) })
                unique_words == Cardinality(uniqueTexts(t))
                unique_with_etymology == Cardinality(textsWithEtymology(t))
            IN  /\ conn' = "closed"
                /\ IF total = 0 \/ unique_words = 0
                   THEN /\ pc' = "raised"
                        /\ stats' = [exc |-> "ZeroDivisionError",
                                     total |-> total,
                                     unique_words |-> unique_words]
                   ELSE /\ pc' = "done"
                        /\ stats' =
                             [exc |-> "none",
                              total |-> total,
                              unique_words |-> unique_words,
                              with_etymology |-> with_etymology,
                              pct_entries |-> pctTenths(with_etymology, total),
                              unique_with_etymology |-> unique_with_etymology,
                              pct_unique |->
                                  pctTenths(unique_with_etymology, unique_words)]
    /\ UNCHANGED <<word_translations, word_roots, idx, updated, not_found,
                   csv_file, csv_read, words, response, etymology, exported,
                   parseVars, formatVars, seedVars>>

\* ------------------------------------------------- inputs of the scripts
S_a == <<"a">>
S_b == <<"b">>
S_x == <<"x">>
S_y == <<"y">>

\* The words of the corpus: a text may occur with several translations.
CorpusWords ==
    { [text |-> S_a, tr |-> <<"t">>],
      [text |-> S_a, tr |-> <<"u">>],
      [text |-> S_b, tr |-> <<"t">>] }

Row(i, w, e) ==
    [id |-> i, sura |-> 1, ayah |-> 1, word_position |-> i,
     arabic_text |-> w.text, translation |-> w.tr,
     transliteration |-> <<"r">>, etymology |-> e]

Tables(E) ==
    UNION { { [i \in 1..n |-> Row(i, ws[i], es[i])] :
                ws \in [1..n -> CorpusWords], es \in [1..n -> E] } :
            n \in 0..MaxRows }

\* What earlier runs may have left in the etymology column.
EtymValues == {NULL, <<>>, S_x}

EtymCsvValues == {S_x, S_y, <<"x", ",", "\"", "y">>, <<"x", "\r", "y">>}

WordRootKeys == { <<1, 1, w>> : w \in 1..(MaxRows + 1) }

\* Mappings as parse_morphology builds them from a file in corpus order:
\* keys pairwise different and ascending.
WordRootInputs ==
    { wr \in UNION { [1..n -> [key : WordRootKeys, root : {S_x}]] :
                       n \in 0..MaxEntries } :
        \A i, j \in 1..Len(wr) : i < j => wr[i].key[3] < wr[j].key[3] }

JsonInputs ==
    { NoMappings,
      <<>>,
      <<[arabic_text |-> S_a, etymology |-> S_y]>>,
      <<[arabic_text |-> S_b, etymology |-> <<>>],
        [arabic_text |-> <<"c">>, etymology |-> S_x]>> }

\* A hand-edited file: arabic_text,etymology / a,y / b,
HandCsv ==
    S_arabic_text \o <<",">> \o S_etymology \o <<"\n">>
        \o <<"a", ",", "y", "\n">> \o <<"b", ",", "\n">>

CsvInputs == {Missing, HandCsv}

Responses ==
    { <<>>, <<" ">>, <<"S", "K", "I", "P", " ">>, S_quit,
      <<" ", "Q", "u", "i", "t">>, <<" ", "y", " ">>, EOF }

\* ----------------------------------- specification: the scripts on the db
InitDb ==
    /\ pc = "idle"
    /\ word_translations \in Tables(EtymValues) \cup {NoTable}
    /\ DbIdle
    /\ ParseIdle
    /\ SeedIdle

NextDb ==
    \/ \E wr \in WordRootInputs : UD_Start(wr)
    \/ UD_Step
    \/ UD_Finish
    \/ export_words
    \/ \E f \in CsvInputs \cup {csv_file} : update_from_csv(f)
    \/ \E m \in JsonInputs : update_from_json(m)
    \/ IM_Start
    \/ \E line \in Responses : IM_Prompt(line)
    \/ IM_Finish
    \/ show_stats
    \/ Exit

SpecDb == InitDb /\ [][NextDb]_vars

\* ------------------------------ specification: export, then bulk import
InitCsv ==
    /\ pc = "idle"
    /\ word_translations \in Tables(EtymCsvValues)
    /\ DbIdle
    /\ ParseIdle
    /\ SeedIdle

NextCsv ==
    \/ export_words
    \/ update_from_csv(csv_file)
    \/ Exit

SpecCsv == InitCsv /\ [][NextCsv]_vars

\* ----------------------------------------------- claims: the scripts
\* C2: show_stats on an empty word_translations table reports 0 for every
\* percentage and completes without raising.
C2_StatsOnEmptyTable ==
    (op = "show_stats" /\ pc \in {"done", "raised"} /\ word_translations = <<>>)
        => /\ pc = "done"
           /\ stats.exc = "none"
           /\ stats.pct_entries = 0
           /\ stats.pct_unique = 0

\* A prompt of interactive_mode was answered (input() returned a line).
promptAnswered ==
    /\ pc = "im_loop"
    /\ response' # EOF
    /\ idx' = idx + 1 \/ pc' = "im_end"

rowsOfPromptedWord == { i \in DOMAIN pending : pending[i].arabic_text = words[idx][1] }

sessionCommitted ==
    (op = "interactive_mode" /\ pc = "done")
        => commits = 1 /\ word_translations = pending

nothingCommittedBefore ==
    (op = "interactive_mode" /\ pc \in {"im_loop", "im_end"}) => commits = 0

afterQuit ==
    pc = "im_end" => /\ pc' = "done"
                     /\ pending' = pending
                     /\ idx' = idx
                     /\ word_translations' = pending
                     /\ commits' = commits + 1

\* C3 as claimed: the response itself is classified: "skip" (any case) or
\* empty writes nothing, "quit" (any case) stops at once, any other
\* response sets the etymology of every row sharing the word's arabic_text;
\* what was applied is committed exactly once at the end.
C3_AsClaimed ==
    /\ [][promptAnswered =>
            LET r == response'
            IN  IF lower(r) = S_quit
                THEN pc' = "im_end" /\ pending' = pending
                ELSE IF lower(r) = S_skip \/ r = <<>>
                THEN pc' = "im_loop" /\ pending' = pending
                ELSE /\ pc' = "im_loop"
                     /\ \E v \in {r, strip(r)} :
                            \A i \in rowsOfPromptedWord :
                                pending'[i].etymology = v]_vars
    /\ [][afterQuit]_vars
    /\ []sessionCommitted
    /\ []nothingCommittedBefore

\* C3, amended: the response is classified after its surrounding whitespace
\* is stripped: stripped "skip" (any case) or empty writes nothing, stripped
\* "quit" (any case) stops at once with no later prompt or write, any other
\* stripped response becomes the etymology of every row sharing the word's
\* arabic_text; what was applied is committed exactly once at the end.
C3_Interactive ==
    /\ [][promptAnswered =>
            LET r == strip(response')
            IN  IF lower(r) = S_quit
                THEN pc' = "im_end" /\ pending' = pending
                ELSE IF lower(r) = S_skip \/ r = <<>>
                THEN pc' = "im_loop" /\ pending' = pending
                ELSE /\ pc' = "im_loop"
                     /\ \A i \in rowsOfPromptedWord :
                            pending'[i].etymology = r]_vars
    /\ [][afterQuit]_vars
    /\ []sessionCommitted
    /\ []nothingCommittedBefore

\* A session of two words: the first was given a root, the second was
\* answered "quit" in some case, and the update is committed.
C3_Witness ==
    /\ op = "interactive_mode"
    /\ pc = "done"
    /\ Len(words) = 2
    /\ idx = 2
    /\ lower(etymology) = S_quit
    /\ etymology # S_quit
    /\ commits = 1
    /\ \A i \in DOMAIN word_translations :
           word_translations[i].arabic_text = words[1][1]
               => word_translations[i].etymology = S_y

\* C5: in update_database an entry whose key matches no row adds one to
\* not_found, nothing to updated, and leaves the table as it was; an entry
\* whose key matches a row adds exactly one to updated; at the end
\* updated + not_found is the number of entries.
C5_UpdateCounters ==
    /\ [][(pc = "ud_loop" /\ idx' = idx + 1) =>
            LET key == word_roots[idx].key
                hit == \E i \in DOMAIN pending :
                           /\ pending[i].sura = key[1]
                           /\ pending[i].ayah = key[2]
                           /\ pending[i].word_position = key[3]
            IN  IF hit
                THEN updated' = updated + 1 /\ not_found' = not_found
                ELSE /\ not_found' = not_found + 1
                     /\ updated' = updated
                     /\ pending' = pending]_vars
    /\ []((op = "update_database" /\ pc = "done")
            => /\ updated + not_found = Len(word_roots)
               /\ word_translations = pending)

C5_Witness ==
    /\ op = "update_database"
    /\ pc = "done"
    /\ Len(word_roots) = 2
    /\ updated = 1
    /\ not_found = 1
    /\ \E i \in DOMAIN word_translations :
           word_translations[i].etymology = S_x

\* C7: on every exit path of a script, normal or abnormal, the connection
\* it opened has been closed.
C7_ConnectionClosedOnExit ==
    pc \in {"done", "raised"} => conn # "open"

\* export_words has run and update_from_csv now reads the file it wrote,
\* the table being as it was at the export, every etymology non-empty.
roundTripStep ==
    /\ pc = "idle"
    /\ op' = "update_from_csv"
    /\ csv_file # Missing
    /\ csv_read' = csv_file
    /\ word_translations = exported
    /\ \A i \in DOMAIN word_translations : ~etymologyMissing(word_translations[i])

etymologiesKept ==
    /\ DOMAIN word_translations' = DOMAIN word_translations
    /\ \A i \in DOMAIN word_translations :
           word_translations'[i].etymology = word_translations[i].etymology

\* C6 as claimed: exporting and importing the same file leaves every row's
\* etymology as it was, whenever every row has a non-empty etymology.
C6_AsClaimed == [][roundTripStep => etymologiesKept]_vars

hasCR(v) == \E i \in 1..Len(v) : v[i] = "\r"

\* C6, amended: the round trip keeps every row's etymology when, besides
\* every etymology being non-empty, rows that share an arabic_text have the
\* same etymology and no arabic_text or etymology holds a carriage return.
C6_RoundTrip ==
    [][(/\ roundTripStep
        /\ \A i, j \in DOMAIN word_translations :
               word_translations[i].arabic_text = word_translations[j].arabic_text
                   => word_translations[i].etymology = word_translations[j].etymology
        /\ \A i \in DOMAIN word_translations :
               /\ ~hasCR(word_translations[i].etymology)
               /\ ~hasCR(word_translations[i].arabic_text))
       => etymologiesKept /\ pc' = "done"]_vars

\* Two rows sharing one arabic_text under two translations, their etymology
\* one that the writer must quote, went through the round trip.
C6_Witness ==
    /\ op = "update_from_csv"
    /\ pc = "done"
    /\ csv_read = csv_file
    /\ word_translations = exported
    /\ Len(word_translations) = 2
    /\ word_translations[1].arabic_text = word_translations[2].arabic_text
    /\ word_translations[1].translation # word_translations[2].translation
    /\ word_translations[1].etymology = <<"x", ",", "\"", "y">>
    /\ word_translations[2].etymology = <<"x", ",", "\"", "y">>
    /\ updated = 4

\* =================================================== populate_root_meanings
CatalogSize == 20

\* ROOT_MEANINGS: (root, primary_meaning, extended_meaning, quran_usage,
\* notes), the roots pairwise different.
ROOT_MEANINGS ==
    [i \in 1..CatalogSize |->
        <<<<"root", i>>, <<"primary", i>>, <<"extended", i>>,
          <<"usage", i>>, <<"notes", i>>>>]

\* CREATE TABLE IF NOT EXISTS root_meanings(...)
createIfNotExists(t) == IF t = NoTable THEN <<>> ELSE t

maxId(t) ==
    IF t = <<>> THEN 0
    ELSE CHOOSE m \in { t[i].id : i \in DOMAIN t } :
             \A i \in DOMAIN t : t[i].id <= m

newRow(db, entry) ==
    [id |-> (IF db.seq > maxId(db.t) THEN db.seq ELSE maxId(db.t)) + 1,
     root |-> entry[1], primary_meaning |-> entry[2],
     extended_meaning |-> entry[3], quran_usage |-> entry[4],
     notes |-> entry[5]]

insertPlain(db, entry) ==
    [t |-> Append(db.t, newRow(db, entry)), seq |-> newRow(db, entry).id]

\* INSERT OR REPLACE INTO root_meanings (root, ...) VALUES (...): the row
\* that holds the same root (UNIQUE) is deleted, the new row gets a new
\* AUTOINCREMENT id.  db = [t, seq].
insertOrReplace(db, entry) ==
    LET kept == SelectSeq(db.t, LAMBDA r : r.root # entry[1])
        row == newRow([t |-> kept, seq |-> db.seq], entry)
    IN  [t |-> Append(kept, row), seq |-> row.id]

RECURSIVE seedAll(_, _)
seedAll(db, entries) ==
    IF entries = <<>> THEN db
    ELSE seedAll(insertOrReplace(db, Head(entries)), Tail(entries))

populate_root_meanings ==
    /\ seed_runs < MaxSeedRuns
    /\ seed_runs' = seed_runs + 1
    /\ LET db == seedAll([t |-> createIfNotExists(root_meanings),
                          seq |-> sqlite_sequence],
                         ROOT_MEANINGS)
       IN  /\ root_meanings' = db.t
           /\ sqlite_sequence' = db.seq
    /\ inserted' = Len(ROOT_MEANINGS)
    /\ UNCHANGED <<pc, parseVars, formatVars, dbVars>>

\* Tables an earlier seeding can have left: each of the first StaleRoots
\* catalog roots is absent, present with the catalog's texts, or present
\* with the texts of an earlier catalog.
staleRow(i, n, how) ==
    [id |-> n, root |-> ROOT_MEANINGS[i][1],
     primary_meaning |-> IF how = "old" THEN <<"primary", 0>>
                         ELSE ROOT_MEANINGS[i][2],
     extended_meaning |-> ROOT_MEANINGS[i][3],
     quran_usage |-> ROOT_MEANINGS[i][4],
     notes |-> IF how = "old" THEN NULL ELSE ROOT_MEANINGS[i][5]]

RECURSIVE staleTable(_, _, _)
staleTable(hows, i, acc) ==
    IF i > Len(hows) THEN acc
    ELSE IF hows[i] = "absent" THEN staleTable(hows, i + 1, acc)
    ELSE staleTable(hows, i + 1, Append(acc, staleRow(i, Len(acc) + 1, hows[i])))

SeedTables ==
    {NoTable} \cup
    { staleTable(h, 1, <<>>) : h \in [1..StaleRoots -> {"absent", "new", "old"}] }

InitSeed ==
    /\ pc = "idle"
    /\ root_meanings \in SeedTables
    /\ sqlite_sequence \in
           IF root_meanings = NoTable THEN {0}
           ELSE {Len(root_meanings), Len(root_meanings) + 1}
    /\ inserted = 0
    /\ seed_runs = 0
    /\ word_translations = <<>>
    /\ DbIdle
    /\ ParseIdle

NextSeed == populate_root_meanings

SpecSeed == InitSeed /\ [][NextSeed]_vars

\* ------------------------------------------------------ claims: seeder
withoutId(t) ==
    [i \in DOMAIN t |->
        <<t[i].root, t[i].primary_meaning, t[i].extended_meaning,
          t[i].quran_usage, t[i].notes>>]

oneRowPerCatalogRoot ==
    seed_runs >= 1 =>
        /\ Len(root_meanings) = CatalogSize
        /\ \A k \in 1..CatalogSize :
               \E i \in DOMAIN root_meanings :
                   /\ withoutId(root_meanings)[i] = ROOT_MEANINGS[k]
                   /\ \A j \in DOMAIN root_meanings :
                          root_meanings[j].root = ROOT_MEANINGS[k][1] => j = i

\* C4 as claimed: once seeded, a further run leaves exactly the same rows,
\* one row per catalog root holding the catalog's texts.
C4_AsClaimed ==
    /\ [][seed_runs >= 1 => root_meanings' = root_meanings]_vars
    /\ []oneRowPerCatalogRoot

\* C4, amended: once seeded, a further run leaves the same rows except for
\* the surrogate id, which INSERT OR REPLACE assigns anew: one row per
\* catalog root (N rows, never 2N), each holding the catalog's
\* primary_meaning, extended_meaning, quran_usage and notes.
C4_SeederIdempotent ==
    /\ [][seed_runs >= 1 =>
            withoutId(root_meanings') = withoutId(root_meanings)]_vars
    /\ []oneRowPerCatalogRoot

\* Seeded twice, starting from a table that held rows of an earlier catalog.
C4_Witness ==
    /\ seed_runs = 2
    /\ Len(root_meanings) = CatalogSize
    /\ sqlite_sequence >= 2 * CatalogSize + 2
    /\ root_meanings[1].id > CatalogSize

\* ------------------------------------------------ claims: frame of the db
\* Table u has the rows of table t, each with the id, sura, ayah,
\* word_position, arabic_text, translation and transliteration it has in t.
sameRowsButEtymology(t, u) ==
    IF t = NoTable \/ u = NoTable THEN t = u
    ELSE /\ Len(u) = Len(t)
         /\ \A i \in 1..Len(t) :
                /\ u[i].id = t[i].id
                /\ u[i].sura = t[i].sura
                /\ u[i].ayah = t[i].ayah
                /\ u[i].word_position = t[i].word_position
                /\ u[i].arabic_text = t[i].arabic_text
                /\ u[i].translation = t[i].translation
                /\ u[i].transliteration = t[i].transliteration

\* C11: whatever step any script takes (update_database, update_from_json,
\* update_from_csv, interactive_mode, in any sequence), no row of
\* word_translations is created or deleted and every column other than
\* etymology keeps its value, in the committed table and in the table the
\* open connection sees; a run of export_words or show_stats changes no row
\* at all.
C11_OnlyEtymologyWritten ==
    [][/\ sameRowsButEtymology(word_translations, word_translations')
       /\ sameRowsButEtymology(pending, pending')
       /\ (pc = "idle" /\ op' \in {"export_words", "show_stats"})
              => /\ word_translations' = word_translations
                 /\ pending' = word_translations]_vars

\* Two scripts have run one after the other: an earlier one wrote the
\* etymology "y" by arabic_text, update_database then wrote "x" by
\* coordinate, and another row's text is still in place.
C11_Witness ==
    /\ runs = 2
    /\ op = "update_database"
    /\ pc = "done"
    /\ updated >= 1
    /\ Len(word_translations) = 2
    /\ word_translations[1].etymology = S_y
    /\ word_translations[2].etymology = S_x
    /\ word_translations[1].arabic_text # word_translations[2].arabic_text

====
